---- MODULE Spec2Model ----
(***************************************************************************)
(* Model of the coupon-validity subsystem of manis005/kart-challenge:      *)
(* internal/coupons (file-backed Manager with background reload, and the   *)
(* RocksDB-backed Manager), and of the order store (InMemoryStore).        *)
(*                                                                         *)
(* Strings are sequences of byte values (Go strings are byte sequences and *)
(* len() counts bytes); only ASCII inputs are drawn.                       *)
(***************************************************************************)
EXTENDS Integers, Sequences, FiniteSets, TLC

\* ------------------------------------------------------------------ bounds

\* Number of ticker firings the reload loop may consume.
MaxTicks == 2
\* Number of calls of the RocksDB-backed Close.
MaxCloseCalls == 2

\* --------------------------------------------------------- program constants

\* len(code) < 8 rejects
MinCodeLen == 8
\* len(code) > 10 rejects
MaxCodeLen == 10
\* counts[code] >= 2 / cnt >= 2
QuorumThreshold == 2
\* NewManagerFromFiles: len(files) < 3 is an error; main passes three files
NumFiles == 3

\* ------------------------------------------------------------ pure helpers

\* unicode.IsSpace restricted to ASCII: '\t' '\n' '\v' '\f' '\r' ' '
IsSpace(b) == b \in {9, 10, 11, 12, 13, 32}

\* strings.ToUpper on ASCII bytes: 'a'..'z' map to 'A'..'Z'
ToUpper(s) == [i \in 1..Len(s) |-> IF s[i] >= 97 /\ s[i] <= 122 THEN s[i] - 32 ELSE s[i]]

RECURSIVE TrimLeft(_)
TrimLeft(s) == IF s # <<>> /\ IsSpace(Head(s)) THEN TrimLeft(Tail(s)) ELSE s

RECURSIVE TrimRight(_)
TrimRight(s) == IF s # <<>> /\ IsSpace(s[Len(s)]) THEN TrimRight(SubSeq(s, 1, Len(s) - 1)) ELSE s

\* strings.TrimSpace
TrimSpace(s) == TrimRight(TrimLeft(s))

\* code = strings.TrimSpace(strings.ToUpper(code))
Normalize(s) == TrimSpace(ToUpper(s))

\* the complement of: len(code) < 8 || len(code) > 10
LenOK(code) == ~(Len(code) < MinCodeLen \/ Len(code) > MaxCodeLen)

\* map read with the zero value for a missing key: m.counts[code]
Lookup(m, k) == IF k \in DOMAIN m THEN m[k] ELSE 0

\* make(map[string]int)
EmptyMap == [k \in {} |-> 0]

\* bufio.Reader.ReadString('\n'): position of the first '\n', 0 when there is none
IndexNL(s) == IF \E i \in 1..Len(s) : s[i] = 10
              THEN CHOOSE i \in 1..Len(s) : s[i] = 10 /\ \A j \in 1..(i - 1) : s[j] # 10
              ELSE 0

\* body of the read loop for one line: trim, upper-case, keep lengths 8..10
AddLine(set, line) == IF line # <<>> /\ LenOK(Normalize(line))
                      THEN set \cup {Normalize(line)}
                      ELSE set

\* the for loop of fastReadGzipIntoSet over the bytes the reader delivers
\* before it reports io.EOF or an error
RECURSIVE ReadLoop(_, _)
ReadLoop(bytes, set) == LET k == IndexNL(bytes)
                        IN IF k = 0
                           THEN AddLine(set, bytes)
                           ELSE ReadLoop(SubSeq(bytes, k + 1, Len(bytes)), AddLine(set, SubSeq(bytes, 1, k)))

\* A source as the loader finds it: its decompressed bytes, and how reading it
\* fails: "none", "open" (os.Open / gzip.NewReader error) or "read" (an I/O
\* or decompression error after `at` bytes were delivered).
Src(data, fail, at) == [data |-> data, fail |-> fail, at |-> at]

\* a slip of the loop exit: a read error ends the loop like io.EOF does
fastReadGzipIntoSetSwallow(src) ==
    CASE src.fail = "open" -> [set |-> {}, err |-> TRUE]
      [] src.fail = "read" -> [set |-> ReadLoop(SubSeq(src.data, 1, src.at), {}), err |-> FALSE]
      [] OTHER -> [set |-> ReadLoop(src.data, {}), err |-> FALSE]

\* fastReadGzipIntoSet(path, set): the set it leaves behind and whether it
\* returns an error
fastReadGzipIntoSet(src) ==
    CASE src.fail = "open" -> [set |-> {}, err |-> TRUE]
      [] src.fail = "read" -> [set |-> ReadLoop(SubSeq(src.data, 1, src.at), {}), err |-> TRUE]
      [] OTHER -> [set |-> ReadLoop(src.data, {}), err |-> FALSE]

\* for code := range set { newCounts[code]++ }
Increment(acc, set) == [c \in (DOMAIN acc) \cup set |-> Lookup(acc, c) + (IF c \in set THEN 1 ELSE 0)]

\* the whole aggregation loop over perFileSets[i..n]
RECURSIVE AggregateFrom(_, _, _)
AggregateFrom(sets, i, acc) == IF i > Len(sets) THEN acc
                               ELSE AggregateFrom(sets, i + 1, Increment(acc, sets[i]))

\* a slip of the comparison: > instead of >=
QuorumMetStrict(m, code) == Lookup(m, code) > QuorumThreshold

\* return m.counts[code] >= 2
QuorumMet(m, code) == Lookup(m, code) >= QuorumThreshold

\* ------------------------------------------------------------------ inputs

\* CreateOrder calls made in a run
MaxCalls == 3

\* the width of "%04d"
IdWidth == 4


\* " abcd1234\nZZZZ9999\n"
FileA == <<32, 97, 98, 99, 100, 49, 50, 51, 52, 10, 90, 90, 90, 90, 57, 57, 57, 57, 10>>
\* "ABCD1234\r\nabcd1234\nSHORT77\n"  (a code twice in one source, CRLF, length 7)
FileB == <<65, 66, 67, 68, 49, 50, 51, 52, 13, 10, 97, 98, 99, 100, 49, 50, 51, 52, 10,
           83, 72, 79, 82, 84, 55, 55, 10>>
\* "abcdefghij\nABCDEFGHIJK\nzzzz9999"  (length 10, length 11, no final newline)
FileC == <<97, 98, 99, 100, 101, 102, 103, 104, 105, 106, 10,
           65, 66, 67, 68, 69, 70, 71, 72, 73, 74, 75, 10,
           122, 122, 122, 122, 57, 57, 57, 57>>
\* "ABCDEFGHIJ\n\n"
FileD == <<65, 66, 67, 68, 69, 70, 71, 72, 73, 74, 10, 10>>

\* What loader i may find on disk in a load cycle: the files change between
\* reloads and may be unreadable.  A read error after 21 bytes of FileC
\* delivers "abcdefghij\nABCDEFGHIJ" (the cut line passes the length filter).
Disk(i) == CASE i = 1 -> {Src(FileB, "none", 0), Src(FileC, "none", 0)}
             [] i = 2 -> {Src(FileB, "none", 0), Src(FileC, "read", 21)}
             [] OTHER -> {Src(FileC, "none", 0), Src(FileA, "open", 0)}

\* Raw codes callers pass to IsValidPromo.
\* " abcd1234 ", "ABCDEFGHIJ", "SHORT77", "abcdefghijk"
QueryCodes == {<<32, 97, 98, 99, 100, 49, 50, 51, 52, 32>>,
               <<65, 66, 67, 68, 69, 70, 71, 72, 73, 74>>,
               <<83, 72, 79, 82, 84, 55, 55>>,
               <<97, 98, 99, 100, 101, 102, 103, 104, 105, 106, 107>>}

\* ------------------------------------------------------------------- state

VARIABLES
    nfiles,       \* len(files) passed to NewManagerFromFiles
    mainpc,       \* caller of NewManagerFromFiles / Close
    counts,       \* m.counts
    muWriter,     \* m.mu held for writing
    muReaders,    \* number of read locks held on m.mu
    quit,         \* m.quit is closed
    wg,           \* m.wg counter
    looppc,       \* position of the reloadLoop goroutine
    ticks,        \* ticker firings consumed so far
    rpc,          \* position of the running reloadOnce call
    ld,           \* loader goroutines of the cycle: idx -> [pc, set, err]
    results,      \* buffered channel `results` (contents)
    resClosed,    \* close(results) has happened
    lwg,          \* counter of the cycle's local WaitGroup
    perFileSets,  \* perFileSets
    anyErr,       \* anyErr != nil
    aggIdx,       \* index of the aggregation loop
    newCounts,    \* newCounts
    q,            \* a caller of IsValidPromo / Snapshot
    cycleSrc,     \* history: what each loader of the cycle found on disk
    pubSrc,       \* history: the sources of the generation published last
    genNo,        \* history: number of generations published
    startCounts,  \* history: m.counts when the running cycle began
    hadFailure,   \* history: a scheduled reload has failed
    closeInReload,\* history: Close was called while a cycle was in flight
    closedCounts, \* history: m.counts when Close returned
    completed,    \* history: scheduled reloadOnce calls that have returned
    initFailed,   \* history: a source of the initial load was unreadable
    srcFiles,     \* the three sources the persistent store was built from
    marker,       \* the value the store's builder writes under every key
    store,        \* the store on disk: partition -> key -> value
    rdb,          \* RocksDB-backed Manager: state of m.db
    handles,      \* column-family handle -> number of Destroy() calls on it
    dbCloses,     \* number of db.Close() calls
    closeCalls,   \* history: number of calls of the RocksDB-backed Close
    rq,           \* a caller of the RocksDB-backed IsValidPromo
    products,     \* InMemoryStore: IDs of s.products
    orders,       \* InMemoryStore: s.orders, order ID -> items
    nextID,       \* InMemoryStore: s.nextID
    smu,          \* InMemoryStore: the caller holding s.mu, or "free"
    co,           \* the callers of CreateOrder: position, items, result
    calls,        \* history: CreateOrder calls made so far
    created       \* history: CreateOrder calls that returned an order

vars == <<nfiles, mainpc, counts, muWriter, muReaders, quit, wg, looppc, ticks, rpc, ld,
          results, resClosed, lwg, perFileSets, anyErr, aggIdx, newCounts, q,
          cycleSrc, pubSrc, genNo, startCounts, hadFailure, closeInReload, closedCounts,
          completed, initFailed, srcFiles, marker, store, rdb, handles, dbCloses, closeCalls, rq,
          products, orders, nextID, smu, co, calls, created>>

mgrVars == <<counts, muWriter, muReaders>>
cycleVars == <<rpc, ld, results, resClosed, lwg, perFileSets, anyErr, aggIdx, newCounts,
               cycleSrc, startCounts>>
histVars == <<pubSrc, genNo, hadFailure, closeInReload, closedCounts, completed, initFailed>>
rocksVars == <<srcFiles, marker, store, rdb, handles, dbCloses, closeCalls, rq>>
fileVars == <<nfiles, mainpc, mgrVars, quit, wg, looppc, ticks, cycleVars, q, histVars>>
storeVars == <<products, orders, nextID, smu, co, calls, created>>

NoSrc == Src(<<>>, "unread", 0)
QIdle == [pc |-> "idle", op |-> "none", raw |-> <<>>, code |-> <<>>, result |-> FALSE,
          seen |-> EmptyMap, cp |-> EmptyMap, consulted |-> FALSE,
          startGen |-> 0, readGen |-> 0, readPub |-> <<>>]

\* no file-backed Manager has been asked for yet
FileInit ==
    /\ mainpc = "start"
    /\ counts = EmptyMap
    /\ muWriter = FALSE
    /\ muReaders = 0
    /\ quit = FALSE
    /\ wg = 0
    /\ looppc = "none"
    /\ ticks = 0
    /\ rpc = "idle"
    /\ ld = <<>>
    /\ results = {}
    /\ resClosed = FALSE
    /\ lwg = 0
    /\ perFileSets = <<>>
    /\ anyErr = FALSE
    /\ aggIdx = 0
    /\ newCounts = EmptyMap
    /\ q = QIdle
    /\ cycleSrc = <<>>
    /\ pubSrc = <<>>
    /\ genNo = 0
    /\ startCounts = EmptyMap
    /\ hadFailure = FALSE
    /\ closeInReload = FALSE
    /\ closedCounts = EmptyMap
    /\ completed = 0
    /\ initFailed = FALSE

RQIdle == [pc |-> "idle", raw |-> <<>>, code |-> <<>>, i |-> 0, cnt |-> 0, result |-> FALSE,
           looked |-> <<>>, errs |-> {}]

\* no RocksDB-backed Manager and no store are in play
RocksInit ==
    /\ srcFiles = <<>>
    /\ marker = <<>>
    /\ store = <<>>
    /\ rdb = "unopened"
    /\ handles = <<>>
    /\ dbCloses = 0
    /\ closeCalls = 0
    /\ rq = RQIdle

\* the goroutines that call CreateOrder
Callers == {"c1", "c2"}

COIdle == [pc |-> "idle", items |-> <<>>, ok |-> FALSE, id |-> <<>>]

\* NewInMemoryStore: empty maps, nextID 1
StoreInit ==
    /\ products = {}
    /\ orders = <<>>
    /\ nextID = 1
    /\ smu = "free"
    /\ co = [c \in Callers |-> COIdle]
    /\ calls = 0
    /\ created = 0

Init ==
    /\ nfiles \in {NumFiles - 1, NumFiles}
    /\ FileInit
    /\ RocksInit
    /\ StoreInit

\* ------------------------------------------------------------- reloadOnce

\* reloadOnce up to the range loop: make the channel, start one loader per
\* file and the goroutine that closes the channel
ReloadStart ==
    /\ rpc' = "collect"
    /\ ld' = [i \in 1..nfiles |-> "run"]
    /\ lwg' = nfiles
    /\ results' = {}
    /\ resClosed' = FALSE
    /\ perFileSets' = [i \in 1..nfiles |-> {}]
    /\ anyErr' = FALSE
    /\ aggIdx' = 0
    /\ newCounts' = EmptyMap
    /\ cycleSrc' = [i \in 1..nfiles |-> NoSrc]
    /\ startCounts' = counts

\* reloadOnce has returned to its caller: its locals are gone
ReloadEnd ==
    /\ rpc' = "idle"
    /\ ld' = <<>>
    /\ lwg' = 0
    /\ results' = {}
    /\ resClosed' = FALSE
    /\ perFileSets' = <<>>
    /\ anyErr' = FALSE
    /\ aggIdx' = 0
    /\ newCounts' = EmptyMap
    /\ cycleSrc' = <<>>
    /\ startCounts' = EmptyMap

\* what loader i's call fastReadGzipIntoSet(p, set) may come back with in a
\* cycle: the source it found and the set and error it got from it
Loads == [i \in 1..NumFiles |-> {[src |-> s, r |-> fastReadGzipIntoSet(s)] : s \in Disk(i)}]

\* loader goroutine body: err := fastReadGzipIntoSet(p, set);
\* results <- fileRes{idx, p, set, err, elapsed}; then the deferred wg.Done().
\* The channel holds n results, so the send waits only while it is full.
Loader(i) ==
    /\ i \in DOMAIN ld
    /\ ld[i] = "run"
    /\ Cardinality(results) < nfiles
    /\ \E e \in Loads[i] :
         /\ results' = results \cup {[idx |-> i, set |-> e.r.set, err |-> e.r.err]}
         /\ cycleSrc' = [cycleSrc EXCEPT ![i] = e.src]
    /\ ld' = [ld EXCEPT ![i] = "exit"]
    /\ lwg' = lwg - 1
    /\ UNCHANGED <<storeVars, rocksVars, nfiles, mainpc, mgrVars, quit, wg, looppc, ticks, rpc, resClosed,
                   perFileSets, anyErr, aggIdx, newCounts, q, startCounts, histVars>>

\* a slip: the channel is closed without waiting for the loaders
LoadersJoinedNoWait(n) == TRUE

\* wg.Wait() returns: every loader has called wg.Done()
LoadersJoined(n) == n = 0

\* go func() { wg.Wait(); close(results) }()
CloseResults ==
    /\ rpc = "collect"
    /\ ~resClosed
    /\ LoadersJoined(lwg)
    /\ resClosed' = TRUE
    /\ UNCHANGED <<storeVars, rocksVars, nfiles, mainpc, mgrVars, quit, wg, looppc, ticks, rpc, ld, results,
                   lwg, perFileSets, anyErr, aggIdx, newCounts, q, cycleSrc, startCounts, histVars>>

\* one iteration of: for r := range results
Collect ==
    /\ rpc = "collect"
    /\ \E r \in results :
         /\ results' = results \ {r}
         /\ anyErr' = (anyErr \/ r.err)
         /\ perFileSets' = [perFileSets EXCEPT ![r.idx] = r.set]
    /\ UNCHANGED <<storeVars, rocksVars, nfiles, mainpc, mgrVars, quit, wg, looppc, ticks, rpc, ld, resClosed,
                   lwg, aggIdx, newCounts, q, cycleSrc, startCounts, histVars>>

\* a slip: the error is logged in the loop and then forgotten
ReturnsErrorNever(e) == FALSE

\* if anyErr != nil { return anyErr }
ReturnsError(e) == e

\* the range loop ends on the closed, drained channel; then the error check
CollectEnd ==
    /\ rpc = "collect"
    /\ results = {}
    /\ resClosed
    /\ rpc' = IF ReturnsError(anyErr) THEN "reterr" ELSE "aggregate"
    /\ aggIdx' = 1
    /\ UNCHANGED <<storeVars, rocksVars, nfiles, mainpc, mgrVars, quit, wg, looppc, ticks, ld, results, resClosed,
                   lwg, perFileSets, anyErr, newCounts, q, cycleSrc, startCounts, histVars>>

\* a slip: the counts are rebuilt in the published map itself
AggregateInPlace(cur, building, set) ==
    [counts |-> Increment(IF building = EmptyMap THEN EmptyMap ELSE cur, set),
     newCounts |-> Increment(building, set)]

\* where one pass of the aggregation loop writes: the map being built is the
\* local newCounts, the published map is left alone
AggregateInto(cur, building, set) == [counts |-> cur, newCounts |-> Increment(building, set)]

\* one pass of: for _, set := range perFileSets { for code := range set { newCounts[code]++ } }
AggregateStep ==
    /\ rpc = "aggregate"
    /\ LET r == AggregateInto(counts, newCounts, perFileSets[aggIdx])
       IN /\ counts' = r.counts
          /\ newCounts' = r.newCounts
    /\ aggIdx' = aggIdx + 1
    /\ rpc' = IF aggIdx = nfiles THEN "lock" ELSE "aggregate"
    /\ UNCHANGED <<storeVars, rocksVars, nfiles, mainpc, muWriter, muReaders, quit, wg, looppc, ticks, ld, results,
                   resClosed, lwg, perFileSets, anyErr, q, cycleSrc, startCounts, histVars>>

\* m.mu.Lock()
SwapLock ==
    /\ rpc = "lock"
    /\ ~muWriter
    /\ muReaders = 0
    /\ muWriter' = TRUE
    /\ rpc' = "assign"
    /\ UNCHANGED <<storeVars, rocksVars, nfiles, mainpc, counts, muReaders, quit, wg, looppc, ticks, ld, results,
                   resClosed, lwg, perFileSets, anyErr, aggIdx, newCounts, q, cycleSrc,
                   startCounts, histVars>>

\* m.counts = newCounts
SwapAssign ==
    /\ rpc = "assign"
    /\ counts' = newCounts
    /\ rpc' = "unlock"
    /\ pubSrc' = cycleSrc
    /\ genNo' = genNo + 1
    /\ UNCHANGED <<storeVars, rocksVars, nfiles, mainpc, muWriter, muReaders, quit, wg, looppc, ticks, ld, results,
                   resClosed, lwg, perFileSets, anyErr, aggIdx, newCounts, q, cycleSrc,
                   startCounts, hadFailure, closeInReload, closedCounts, completed, initFailed>>

\* a slip: reloadOnce returns without m.mu.Unlock()
AfterUnlockKept(held) == held

\* m.mu.Unlock(): the write lock is no longer held
AfterUnlock(held) == FALSE

\* m.mu.Unlock(); log; return nil
SwapUnlock ==
    /\ rpc = "unlock"
    /\ muWriter' = AfterUnlock(muWriter)
    /\ rpc' = "retok"
    /\ UNCHANGED <<storeVars, rocksVars, nfiles, mainpc, counts, muReaders, quit, wg, looppc, ticks, ld, results,
                   resClosed, lwg, perFileSets, anyErr, aggIdx, newCounts, q, cycleSrc,
                   startCounts, histVars>>

\* ---------------------------------------------- NewManagerFromFiles, Close

\* if len(files) < 3 { return nil, errors.New("need 3 coupon files") }
TooFewFiles(n) == n < NumFiles

\* NewManagerFromFiles up to the initial m.reloadOnce() call
NewManagerFromFiles ==
    /\ mainpc = "start"
    /\ IF TooFewFiles(nfiles)
       THEN /\ mainpc' = "failed"
            /\ UNCHANGED cycleVars
       ELSE /\ mainpc' = "initload"
            /\ ReloadStart
    /\ UNCHANGED <<storeVars, rocksVars, nfiles, mgrVars, quit, wg, looppc, ticks, q, histVars>>

\* a slip: the initial load's error is dropped
InitialLoadFailedIgnored(pc) == FALSE

\* if err := m.reloadOnce(); err != nil { return nil, err }
InitialLoadFailed(pc) == pc = "reterr"

\* the initial reloadOnce has returned: give up, or m.wg.Add(1); go m.reloadLoop()
NewManagerReturn ==
    /\ mainpc = "initload"
    /\ rpc \in {"retok", "reterr"}
    /\ IF InitialLoadFailed(rpc)
       THEN /\ mainpc' = "failed"
            /\ UNCHANGED <<wg, looppc>>
       ELSE /\ mainpc' = "serving"
            /\ wg' = wg + 1
            /\ looppc' = "select"
    /\ initFailed' = \E i \in DOMAIN cycleSrc : cycleSrc[i].fail # "none"
    /\ ReloadEnd
    /\ UNCHANGED <<storeVars, rocksVars, nfiles, mgrVars, quit, ticks, q, pubSrc, genNo, hadFailure,
                   closeInReload, closedCounts, completed>>

\* Close: close(m.quit)
Close ==
    /\ mainpc = "serving"
    /\ quit' = TRUE
    /\ mainpc' = "closewait"
    /\ closeInReload' = (looppc = "reload")
    /\ UNCHANGED <<storeVars, rocksVars, nfiles, mgrVars, wg, looppc, ticks, cycleVars, q, pubSrc, genNo,
                   hadFailure, closedCounts, completed, initFailed>>

\* a slip: Close signals and returns without waiting
WaitDoneNow(n) == TRUE

\* m.wg.Wait() lets Close return
WaitDone(n) == n = 0

\* Close: m.wg.Wait() returns
CloseReturn ==
    /\ mainpc = "closewait"
    /\ WaitDone(wg)
    /\ mainpc' = "closed"
    /\ closedCounts' = counts
    /\ UNCHANGED <<storeVars, rocksVars, nfiles, mgrVars, quit, wg, looppc, ticks, cycleVars, q, pubSrc, genNo,
                   hadFailure, closeInReload, completed, initFailed>>

\* -------------------------------------------------------------- reloadLoop

\* select: case <-ticker.C: m.reloadOnce() is called
LoopTick ==
    /\ looppc = "select"
    /\ ticks < MaxTicks
    /\ ticks' = ticks + 1
    /\ looppc' = "reload"
    /\ ReloadStart
    /\ UNCHANGED <<storeVars, rocksVars, nfiles, mainpc, mgrVars, quit, wg, q, histVars>>

\* the scheduled reloadOnce has returned: log an error, go round the loop
LoopReloadReturn ==
    /\ looppc = "reload"
    /\ rpc \in {"retok", "reterr"}
    /\ looppc' = "select"
    /\ hadFailure' = (hadFailure \/ rpc = "reterr")
    /\ completed' = completed + 1
    /\ ReloadEnd
    /\ UNCHANGED <<storeVars, rocksVars, nfiles, mainpc, mgrVars, quit, wg, ticks, q, pubSrc, genNo,
                   closeInReload, closedCounts, initFailed>>

\* a slip: reloadLoop returns without m.wg.Done()
WgDoneMissing(n) == n

\* defer m.wg.Done()
WgDone(n) == n - 1

\* select: case <-m.quit: return, and the deferred ticker.Stop(), m.wg.Done()
LoopQuit ==
    /\ looppc = "select"
    /\ quit
    /\ looppc' = "exited"
    /\ wg' = WgDone(wg)
    /\ UNCHANGED <<storeVars, rocksVars, nfiles, mainpc, mgrVars, quit, ticks, cycleVars, q, histVars>>

\* ------------------------------------------------- IsValidPromo, Snapshot

\* a caller holds the *Manager only once NewManagerFromFiles has returned it
HasManager == mainpc \in {"serving", "closewait", "closed"}

\* IsValidPromo: normalize and check the length; out-of-range returns false
IsValidPromoBegin(raw) ==
    /\ HasManager
    /\ q.pc = "idle"
    /\ LET code == Normalize(raw)
       IN q' = [QIdle EXCEPT !.op = "valid", !.raw = raw, !.code = code,
                             !.pc = IF LenOK(code) THEN "rlock" ELSE "done",
                             !.result = FALSE,
                             !.startGen = genNo, !.readGen = genNo, !.readPub = pubSrc]
    /\ UNCHANGED <<storeVars, rocksVars, nfiles, mainpc, mgrVars, quit, wg, looppc, ticks, cycleVars, histVars>>

\* Snapshot is called
SnapshotBegin ==
    /\ HasManager
    /\ q.pc = "idle"
    /\ q' = [QIdle EXCEPT !.op = "snap", !.pc = "rlock", !.startGen = genNo,
                          !.readGen = genNo, !.readPub = pubSrc]
    /\ UNCHANGED <<storeVars, rocksVars, nfiles, mainpc, mgrVars, quit, wg, looppc, ticks, cycleVars, histVars>>

\* m.mu.RLock()
RLock ==
    /\ q.pc = "rlock"
    /\ ~muWriter
    /\ muReaders' = muReaders + 1
    /\ q' = [q EXCEPT !.pc = "read"]
    /\ UNCHANGED <<storeVars, rocksVars, nfiles, mainpc, counts, muWriter, quit, wg, looppc, ticks, cycleVars, histVars>>

\* IsValidPromo: return m.counts[code] >= 2, and the deferred RUnlock
\* Snapshot: copy m.counts into cp, return cp, and the deferred RUnlock
ReadAndRUnlock ==
    /\ q.pc = "read"
    /\ muReaders' = muReaders - 1
    /\ q' = [q EXCEPT !.pc = "done", !.seen = counts, !.consulted = TRUE,
                      !.result = IF q.op = "valid" THEN QuorumMet(counts, q.code) ELSE FALSE,
                      !.cp = IF q.op = "snap" THEN [k \in DOMAIN counts |-> counts[k]] ELSE EmptyMap,
                      !.readGen = genNo, !.readPub = pubSrc]
    /\ UNCHANGED <<storeVars, rocksVars, nfiles, mainpc, counts, muWriter, quit, wg, looppc, ticks, cycleVars, histVars>>

\* the caller has its answer
QueryReturn ==
    /\ q.pc = "done"
    /\ q' = QIdle
    /\ UNCHANGED <<storeVars, rocksVars, nfiles, mainpc, mgrVars, quit, wg, looppc, ticks, cycleVars, histVars>>

\* ------------------------------------------------------------ specification

Next ==
    \/ NewManagerFromFiles
    \/ NewManagerReturn
    \/ \E i \in 1..NumFiles : Loader(i)
    \/ CloseResults
    \/ Collect
    \/ CollectEnd
    \/ AggregateStep
    \/ SwapLock
    \/ SwapAssign
    \/ SwapUnlock
    \/ LoopTick
    \/ LoopReloadReturn
    \/ LoopQuit
    \/ Close
    \/ CloseReturn
    \/ \E raw \in QueryCodes : IsValidPromoBegin(raw)
    \/ SnapshotBegin
    \/ RLock
    \/ ReadAndRUnlock
    \/ QueryReturn

Spec == Init /\ [][Next]_vars

\* Fair scheduling: every goroutine that can take its next step takes it.
\* Every per-source load ends (Loader); the collector, the closer and the
\* aggregation run on; a reader holding the read lock releases it. m.mu.Lock()
\* is strongly fair: sync.RWMutex keeps new readers out while a writer waits.
\* The loop's quit case is strongly fair: select picks at random among the
\* ready cases, so a ready quit case is not passed over for ever.
Fairness ==
    /\ \A i \in 1..NumFiles : WF_vars(Loader(i))
    /\ WF_vars(CloseResults)
    /\ WF_vars(Collect)
    /\ WF_vars(CollectEnd)
    /\ WF_vars(AggregateStep)
    /\ SF_vars(SwapLock)
    /\ WF_vars(SwapAssign)
    /\ WF_vars(SwapUnlock)
    /\ WF_vars(LoopReloadReturn)
    /\ SF_vars(LoopQuit)
    /\ WF_vars(CloseReturn)
    /\ WF_vars(ReadAndRUnlock)

SpecFair == Init /\ [][Next]_vars /\ Fairness

\* ------------------------------------------------- what the claims speak of

\* the lines of a source: the maximal newline-free stretches of its bytes
RawLines(data) ==
    LET starts == {i \in 1..(Len(data) + 1) : i = 1 \/ data[i - 1] = 10}
        ends == {j \in 0..Len(data) : j = Len(data) \/ data[j + 1] = 10}
    IN UNION {{SubSeq(data, i, j) : j \in {e \in ends : e >= i - 1 /\ \A k \in i..e : data[k] # 10}}
              : i \in starts}

\* a source's normalized set: its lines upper-cased and trimmed
NormalizedSourceSet(src) == {Normalize(l) : l \in RawLines(src.data)}

\* the number of sources whose normalized set holds the code
SourcesHolding(srcs, code) == Cardinality({i \in DOMAIN srcs : code \in NormalizedSourceSet(srcs[i])})

\* the generation a set of complete sources stands for: every code of length
\* 8..10 that some source holds, mapped to the number of sources holding it
GenerationOf(srcs) ==
    LET all == {c \in UNION {NormalizedSourceSet(srcs[i]) : i \in DOMAIN srcs} : Len(c) \in 8..10}
    IN [c \in all |-> SourcesHolding(srcs, c)]

\* C1: file-backed backend: once the generation built from three source sets
\* is current, IsValidPromo(c) is true exactly when the normalized code has a
\* length in 8..10 and lies in at least 2 of the 3 normalized source sets.
C1_QuorumRule ==
    (q.pc = "done" /\ q.op = "valid") =>
        /\ Len(q.readPub) = 3
        /\ q.result = (/\ Len(Normalize(q.raw)) \in 8..10
                       /\ SourcesHolding(q.readPub, Normalize(q.raw)) >= 2)

\* a raw code that needed trimming and upper-casing was answered true
C1_Witness == q.pc = "done" /\ q.op = "valid" /\ q.result /\ Normalize(q.raw) # q.raw

\* C4: a scheduled reload one of whose sources is unreadable returns an error
\* and leaves m.counts as it was when the cycle began; the loop goes on, and a
\* later tick can publish again.
C4_FailedReloadKeepsGeneration ==
    /\ (/\ looppc = "reload"
        /\ rpc \in {"retok", "reterr"}
        /\ \E i \in DOMAIN cycleSrc : cycleSrc[i].fail # "none")
       => (rpc = "reterr" /\ counts = startCounts /\ counts = GenerationOf(pubSrc))
    /\ (hadFailure /\ ~quit) => looppc \in {"select", "reload"}
    /\ (hadFailure /\ looppc = "select" /\ ~quit /\ ticks < MaxTicks) => ENABLED LoopTick

\* after a failed scheduled reload, a later scheduled reload has published
C4_Witness == hadFailure /\ looppc = "reload" /\ rpc = "retok" /\ counts # startCounts

\* C5: every answer is computed from one complete published generation: the
\* one current when the call began or a newer one, never a map under
\* construction and never a mix.
C5_AtomicVisibility ==
    (q.pc = "done" /\ q.consulted) =>
        /\ q.readGen >= 1
        /\ q.readGen >= q.startGen
        /\ q.seen = GenerationOf(q.readPub)
        /\ \A i \in DOMAIN q.readPub : q.readPub[i].fail = "none"
        /\ (q.op = "snap" => q.cp = GenerationOf(q.readPub))
        /\ (q.op = "valid" => q.result = (Lookup(GenerationOf(q.readPub), q.code) >= 2))

\* a call that began under one generation read the next one, swapped in meanwhile
C5_Witness == q.pc = "done" /\ q.consulted /\ q.readGen > q.startGen /\ q.seen # EmptyMap

\* C6: every published generation is the aggregate of the N complete sets of
\* one cycle whose sources all loaded; each code maps to the number of
\* distinct sources holding it, a number in 1..N.
C6_PublishedIsCompleteAggregate ==
    /\ genNo = 0 => counts = EmptyMap
    /\ genNo >= 1 =>
        /\ Len(pubSrc) = nfiles
        /\ \A i \in DOMAIN pubSrc : pubSrc[i].fail = "none"
        /\ counts = GenerationOf(pubSrc)
        /\ \A c \in DOMAIN counts : counts[c] \in 1..nfiles

\* a generation is current that holds a source repeating a code (FileB), in
\* which that code counts once per source, after some reload was abandoned
C6_Witness ==
    /\ genNo >= 2
    /\ hadFailure
    /\ pubSrc[1].data = FileB /\ pubSrc[2].data = FileB
    /\ counts[<<65, 66, 67, 68, 49, 50, 51, 52>>] = 2

\* C7: when Close has returned the reload loop has exited, no cycle is in
\* progress, every started cycle has run to its end, and m.counts stays what
\* it was when Close returned.
C7_ShutdownDrain ==
    mainpc = "closed" =>
        /\ looppc = "exited"
        /\ rpc = "idle"
        /\ ld = <<>>
        /\ lwg = 0
        /\ ~muWriter
        /\ completed = ticks
        /\ counts = closedCounts

\* Close was called in the middle of a reload cycle and has returned
C7_Witness == mainpc = "closed" /\ closeInReload

C11_JoinBarrier ==
    /\ rpc \in {"aggregate", "lock", "assign", "unlock", "retok", "reterr"} =>
           /\ DOMAIN ld = 1..nfiles
           /\ \A i \in DOMAIN ld : ld[i] = "exit" /\ cycleSrc[i].fail # "unread"
           /\ lwg = 0
           /\ results = {}
           /\ resClosed
    /\ \A i \in DOMAIN ld : ld[i] = "run" => (Cardinality(results) < nfiles /\ ENABLED Loader(i))

\* a scheduled cycle has come to its aggregation: all its loaders are done
C11_Witness == looppc = "reload" /\ rpc = "aggregate" /\ aggIdx = 1 /\ \A i \in 1..3 : ld[i] = "exit"

\* the reloadOnce calls made so far: the initial one and one per tick taken
CyclesStarted == (IF mainpc = "start" \/ TooFewFiles(nfiles) THEN 0 ELSE 1) + ticks

\* the caller of the reloadOnce call in progress: the constructor or the loop
CycleCallers == {c \in {"constructor", "loop"} :
                    \/ c = "constructor" /\ mainpc = "initload"
                    \/ c = "loop" /\ looppc = "reload"}

\* one cycle at a time, each publishing at most once
OneCycleAtATime ==
    /\ Cardinality(CycleCallers) <= 1
    /\ (rpc # "idle") = (CycleCallers # {})
    /\ mainpc \in {"start", "initload", "failed"} => looppc = "none"
    /\ genNo <= CyclesStarted
    /\ rpc \in {"collect", "aggregate", "lock", "assign"} => genNo < CyclesStarted

\* m.counts changes only in reloadOnce's assignment; a cycle starts only when
\* none is in progress; a query's steps leave m.counts alone
OnlyReloadOnceWrites ==
    /\ (counts' # counts \/ genNo' # genNo) =>
           (rpc = "assign" /\ rpc' = "unlock" /\ muWriter /\ genNo' = genNo + 1 /\ q' = q)
    /\ CyclesStarted' # CyclesStarted =>
           (rpc = "idle" /\ rpc' = "collect" /\ CyclesStarted' = CyclesStarted + 1)
    /\ q' # q => (counts' = counts /\ genNo' = genNo)

\* C12: at most one reload cycle is in progress at any time: the initial load
\* ends before the loop starts and the loop runs its cycles one after another;
\* m.counts is replaced only by reloadOnce's assignment under the write lock,
\* at most once per cycle; IsValidPromo and Snapshot never change m.counts.
C12_SingleWriter == []OneCycleAtATime /\ [][OnlyReloadOnceWrites]_vars

\* the loop's second cycle has just replaced m.counts while a query waits for
\* the read lock
C12_Witness == ticks = 2 /\ genNo >= 2 /\ looppc = "reload" /\ rpc = "unlock" /\ q.pc = "rlock"

\* reloadOnce is loading or aggregating: before its m.mu.Lock()
LoadPhase == rpc \in {"collect", "aggregate"}

\* the write lock is held exactly around the assignment, and never while the
\* loaders run or the aggregation goes on
LockOnlyAroundSwap ==
    /\ muWriter = (rpc \in {"assign", "unlock"})
    /\ LoadPhase => ~muWriter
    /\ (rpc = "unlock" /\ muWriter) => counts = newCounts

\* a query's step taken during the load phase: RLock is granted, and what is
\* read is the generation that was current when the cycle began
ReaderUnaffectedByLoad ==
    /\ (LoadPhase /\ q.pc = "rlock" /\ q' # q) => q'.pc = "read"
    /\ (LoadPhase /\ q.pc = "read" /\ q' # q) =>
           /\ q'.pc = "done"
           /\ q'.seen = startCounts
           /\ q'.readPub = pubSrc
           /\ q'.readGen = genNo
    /\ (muWriter /\ ~muWriter') => (rpc = "unlock" /\ rpc' = "retok" /\ counts = newCounts)
    /\ (~muWriter /\ muWriter') => (rpc = "lock" /\ rpc' = "assign" /\ muReaders = 0)

\* C13: the refresher holds the write lock only for the assignment that swaps
\* in the new map; while loaders run or the aggregation is in progress it
\* holds no lock, so a query issued then is not blocked by the reload and is
\* answered from the previously published generation.
C13_NoLockAcrossLoad == []LockOnlyAroundSwap /\ [][ReaderUnaffectedByLoad]_vars

\* a query that took the read lock while loaders of a scheduled cycle were
\* still running has been answered from the generation published before
C13_Witness ==
    /\ looppc = "reload" /\ rpc = "collect" /\ \E i \in DOMAIN ld : ld[i] = "run"
    /\ q.pc = "done" /\ q.consulted /\ q.op = "valid" /\ q.result
    /\ q.seen = startCounts

\* a step of the loop that starts a reload cycle
StartsCycle == looppc = "select" /\ looppc' = "reload"

\* C14: once Close has closed the quit channel the reload loop starts no new
\* reload cycle, even if a tick is pending; only a cycle already in flight
\* may still complete.
C14_CancellationStopsTicking == [][quit => ~StartsCycle]_vars

\* C15: under fair scheduling, with every per-source load ending, a call to
\* Close on a Manager made by NewManagerFromFiles returns, whether the loop
\* was waiting for a tick or in the middle of a cycle when Close was called.
C15_ShutdownTerminates == (mainpc = "closewait") ~> (mainpc = "closed")

\* Close was called in the middle of a cycle that went on to publish, and has
\* returned
C15_Witness == mainpc = "closed" /\ closeInReload /\ genNo >= 2 /\ counts = closedCounts

\* ------------------------------------------------- RocksDB-backed Manager

\* cfNames passed to OpenDbColumnFamilies
OpenCFNames == <<"default", "file1", "file2", "file3">>

\* the partitions IsValidPromo consults, in the order of its loop; these are
\* also the handles NewManagerFromRocks keeps in m.cf
QueryCFNames == <<"file1", "file2", "file3">>

Range(f) == {f[x] : x \in DOMAIN f}

\* The sources a store may have been built from.
StoreSources == {Src(FileA, "none", 0), Src(FileB, "none", 0), Src(FileC, "none", 0),
                 Src(FileD, "none", 0)}

\* The marker values a store builder may write: "" and "1".
Markers == {<<>>, <<49>>}

\* Raw codes callers pass to the RocksDB-backed IsValidPromo.
\* " abcd1234 ", "zzzz9999", "ABCDEFGHIJ", "SHORT77", "abcdefghijk", "XXXX0000"
RocksQueryCodes == {<<32, 97, 98, 99, 100, 49, 50, 51, 52, 32>>,
                    <<122, 122, 122, 122, 57, 57, 57, 57>>,
                    <<65, 66, 67, 68, 69, 70, 71, 72, 73, 74>>,
                    <<83, 72, 79, 82, 84, 55, 55>>,
                    <<97, 98, 99, 100, 101, 102, 103, 104, 105, 106, 107>>,
                    <<88, 88, 88, 88, 48, 48, 48, 48>>}

\* The store layout: partition file<i> holds the normalized codes of source i
\* as keys, each with the marker as its value.
BuildStore(files, mk) ==
    [name \in Range(QueryCFNames) |->
        LET i == CHOOSE j \in DOMAIN QueryCFNames : QueryCFNames[j] = name
            keys == {c \in NormalizedSourceSet(files[i]) : Len(c) \in 8..10}
        IN [k \in keys |-> mk]]

\* a store built from three sources is on disk; no Manager is open
RocksStart ==
    /\ srcFiles \in [1..NumFiles -> StoreSources]
    /\ marker \in Markers
    /\ store = BuildStore(srcFiles, marker)
    /\ rdb = "unopened"
    /\ handles = <<>>
    /\ dbCloses = 0
    /\ closeCalls = 0
    /\ rq = RQIdle

\* NewManagerFromRocks: OpenDbColumnFamilies fails, or hands out one handle
\* per column family, of which m.cf keeps file1, file2, file3
NewManagerFromRocks ==
    /\ rdb = "unopened"
    /\ \E ok \in BOOLEAN :
         IF ok
         THEN /\ rdb' = "open"
              /\ handles' = [h \in Range(OpenCFNames) |-> 0]
         ELSE /\ rdb' = "openfailed"
              /\ UNCHANGED handles
    /\ UNCHANGED <<storeVars, fileVars, srcFiles, marker, store, dbCloses, closeCalls, rq>>

\* the handles Close destroys: for _, h := range m.cf
ClosedHandles == Range(QueryCFNames)

\* Close: nothing when m.db == nil; else destroy the handles of m.cf, close
\* the db and set m.db = nil
RocksClose ==
    /\ rdb \in {"open", "closed"}
    /\ rq.pc = "idle"
    /\ closeCalls < MaxCloseCalls
    /\ closeCalls' = closeCalls + 1
    /\ IF rdb = "closed"
       THEN UNCHANGED <<rdb, handles, dbCloses>>
       ELSE /\ handles' = [h \in DOMAIN handles |->
                              IF h \in ClosedHandles THEN handles[h] + 1 ELSE handles[h]]
            /\ dbCloses' = dbCloses + 1
            /\ rdb' = "closed"
    /\ UNCHANGED <<storeVars, fileVars, srcFiles, marker, store, rq>>

\* m.db.GetCF(ro, c, key): an error, or a slice that is empty when the key is
\* absent and holds the value when it is present
GetCF(st, name, key, fails) ==
    IF fails THEN [err |-> TRUE, exists |-> FALSE, size |-> 0]
    ELSE IF key \in DOMAIN st[name]
         THEN [err |-> FALSE, exists |-> TRUE, size |-> Len(st[name][key])]
         ELSE [err |-> FALSE, exists |-> FALSE, size |-> 0]

\* a slip: a failed lookup counts as a hit
IsHitOnError(val) == val.err \/ val.size > 0

\* err == nil && val != nil && val.Size() > 0
IsHit(val) == ~val.err /\ val.size > 0

\* IsValidPromo: normalize and check the length; out-of-range returns false
RocksIsValidPromoBegin(raw) ==
    /\ rdb = "open"
    /\ rq.pc = "idle"
    /\ LET code == Normalize(raw)
       IN rq' = [RQIdle EXCEPT !.raw = raw, !.code = code, !.i = 1,
                               !.pc = IF LenOK(code) THEN "loop" ELSE "done"]
    /\ UNCHANGED <<storeVars, fileVars, srcFiles, marker, store, rdb, handles, dbCloses, closeCalls>>

\* one pass of the loop over file1, file2, file3: a point lookup, the count,
\* and the return once cnt >= 2; return false after the last pass
RocksLookup ==
    /\ rq.pc = "loop"
    /\ \E fails \in BOOLEAN :
         LET name == QueryCFNames[rq.i]
             val == GetCF(store, name, rq.code, fails)
             cnt == IF IsHit(val) THEN rq.cnt + 1 ELSE rq.cnt
             last == rq.i = Len(QueryCFNames)
         IN rq' = [rq EXCEPT !.cnt = cnt,
                             !.looked = Append(rq.looked, name),
                             !.errs = IF fails THEN rq.errs \cup {name} ELSE rq.errs,
                             !.i = IF cnt >= QuorumThreshold \/ last THEN rq.i ELSE rq.i + 1,
                             !.result = (cnt >= QuorumThreshold),
                             !.pc = IF cnt >= QuorumThreshold \/ last THEN "done" ELSE "loop"]
    /\ UNCHANGED <<storeVars, fileVars, srcFiles, marker, store, rdb, handles, dbCloses, closeCalls>>

\* the caller has its answer
RocksReturn ==
    /\ rq.pc = "done"
    /\ rq' = RQIdle
    /\ UNCHANGED <<storeVars, fileVars, srcFiles, marker, store, rdb, handles, dbCloses, closeCalls>>

InitRocks ==
    /\ nfiles = NumFiles
    /\ FileInit
    /\ RocksStart
    /\ StoreInit

NextRocks ==
    \/ NewManagerFromRocks
    \/ RocksClose
    \/ \E raw \in RocksQueryCodes : RocksIsValidPromoBegin(raw)
    \/ RocksLookup
    \/ RocksReturn

SpecRocks == InitRocks /\ [][NextRocks]_vars

\* the file-backed Manager's answer for a raw code once the generation loaded
\* from the given sources is current: reloadOnce's aggregation, then IsValidPromo
FileBackedAnswer(files, raw) ==
    LET sets == [i \in DOMAIN files |-> fastReadGzipIntoSet(files[i]).set]
        cnts == AggregateFrom(sets, 1, EmptyMap)
        code == Normalize(raw)
    IN LenOK(code) /\ QuorumMet(cnts, code)

\* the number of partitions that hold the code as a key
PartitionsHolding(st, code) == Cardinality({n \in DOMAIN st : code \in DOMAIN st[n]})

\* C2: over a store laid out as prescribed (keys with empty marker values)
\* the RocksDB-backed IsValidPromo answers as the file-backed one does on the
\* same sources.
C2_BackendEquivalence ==
    (rq.pc = "done" /\ marker = <<>> /\ rq.errs = {}) =>
        rq.result = FileBackedAnswer(srcFiles, rq.raw)

\* C3: a partition counts as holding the code exactly when the key exists in
\* it, whatever the value; the answer is true iff at least 2 partitions hold it.
C3_KeyExistenceDecides ==
    (rq.pc = "done" /\ LenOK(rq.code) /\ rq.errs = {}) =>
        rq.result = (PartitionsHolding(store, rq.code) >= 2)

\* C8: in both backends a code whose normalized length is outside 8..10 is
\* answered false without a lookup, and one of length 8 or 10 is answered
\* true iff at least 2 sources hold it.
C8_LengthBoundary ==
    (rq.pc = "done" /\ rq.errs = {}) =>
        /\ Len(Normalize(rq.raw)) \notin 8..10 => (~rq.result /\ rq.looked = <<>>)
        /\ Len(Normalize(rq.raw)) \in {8, 10} =>
               /\ rq.result = (SourcesHolding(srcFiles, Normalize(rq.raw)) >= 2)
               /\ FileBackedAnswer(srcFiles, rq.raw) = (SourcesHolding(srcFiles, Normalize(rq.raw)) >= 2)

\* C10: the first Close releases every column-family handle obtained at open
\* and the store handle, each exactly once; further calls release nothing.
C10_CloseReleasesAll ==
    closeCalls >= 1 =>
        /\ \A h \in DOMAIN handles : handles[h] = 1
        /\ dbCloses = 1

\* the partitions a query has consulted so far are file1.. in that order,
\* each once
ConsultedInOrder == rq.looked = SubSeq(QueryCFNames, 1, Len(rq.looked))

\* C16: the RocksDB-backed IsValidPromo consults file1, file2, file3 in that
\* order, each at most once, and returns true right after the second hit: the
\* third partition is never read when the first two both hold the code; a
\* code failing the length check causes no lookup.
C16_QuorumShortCircuit ==
    /\ ConsultedInOrder
    /\ ~LenOK(rq.code) => rq.looked = <<>>
    /\ (rq.pc = "done" /\ rq.result) => (rq.cnt = QuorumThreshold /\ Len(rq.looked) >= QuorumThreshold)
    /\ (/\ rq.pc # "idle"
        /\ rq.errs = {}
        /\ rq.code \in DOMAIN store["file1"]
        /\ rq.code \in DOMAIN store["file2"]) => "file3" \notin Range(rq.looked)

\* the partitions consulted without error that hold the code
FoundIn == {n \in Range(rq.looked) : n \notin rq.errs /\ rq.code \in DOMAIN store[n]}

\* C17: a failed point lookup never reaches the caller of the RocksDB-backed
\* IsValidPromo: the partition counts as not holding the code, the remaining
\* partitions are still consulted, and the answer is true only if at least 2
\* lookups succeeded and found the code.
C17_LookupErrorsSwallowed ==
    /\ rq.result \in BOOLEAN
    /\ rq.cnt <= Cardinality(FoundIn)
    /\ rq.errs \subseteq Range(rq.looked)
    /\ rq.pc = "loop" => (rq.i = Len(rq.looked) + 1 /\ rq.cnt < QuorumThreshold)
    /\ (rq.pc = "done" /\ rq.result) => Cardinality(FoundIn) >= 2
    /\ (rq.pc = "done" /\ ~rq.result /\ LenOK(rq.code)) => rq.looked = QueryCFNames

\* the lookup on file1 failed, file2 and file3 were still consulted and both
\* held the code: the answer is true
C17_Witness ==
    /\ rq.pc = "done" /\ rq.result
    /\ rq.errs = {"file1"}
    /\ rq.looked = QueryCFNames
    /\ marker # <<>>

\* ----------------------------------------------------------- InMemoryStore

\* the products main adds before it starts serving: "10", "11"
SeedProducts == <<"10", "11">>

\* Item lists callers pass to CreateOrder: none, known products, an unknown
\* product, an unknown product after a known one.
ItemLists == {<<>>,
              <<[ProductID |-> "10", Quantity |-> 1]>>,
              <<[ProductID |-> "11", Quantity |-> 2], [ProductID |-> "10", Quantity |-> 1]>>,
              <<[ProductID |-> "99", Quantity |-> 1]>>,
              <<[ProductID |-> "10", Quantity |-> 1], [ProductID |-> "99", Quantity |-> 1]>>}

\* the decimal digits of n >= 0
RECURSIVE Digits(_)
Digits(n) == IF n < 10 THEN <<48 + n>> ELSE Append(Digits(n \div 10), 48 + (n % 10))

\* fmt.Sprintf("%04d", n) for n >= 0: at least 4 digits, padded with zeros
Sprintf04d(n) == LET d == Digits(n)
                 IN IF Len(d) >= IdWidth THEN d ELSE [i \in 1..(IdWidth - Len(d)) |-> 48] \o d

\* AddProduct, as main calls it: s.products[p.ID] = p under s.mu
AddProduct ==
    /\ Cardinality(products) < Len(SeedProducts)
    /\ smu = "free"
    /\ products' = products \cup {SeedProducts[Cardinality(products) + 1]}
    /\ UNCHANGED <<fileVars, rocksVars, orders, nextID, smu, co, calls, created>>

\* CreateOrder is called: if len(items) == 0 { return Order{}, errors.New("no items") }
CreateOrderBegin(c, items) ==
    /\ products = Range(SeedProducts)
    /\ co[c].pc = "idle"
    /\ calls < MaxCalls
    /\ calls' = calls + 1
    /\ co' = [co EXCEPT ![c] = [COIdle EXCEPT !.items = items,
                                             !.pc = IF Len(items) = 0 THEN "done" ELSE "lock"]]
    /\ UNCHANGED <<fileVars, rocksVars, products, orders, nextID, smu, created>>

\* s.mu.Lock()
CreateOrderLock(c) ==
    /\ co[c].pc = "lock"
    /\ smu = "free"
    /\ smu' = c
    /\ co' = [co EXCEPT ![c].pc = "body"]
    /\ UNCHANGED <<fileVars, rocksVars, products, orders, nextID, calls, created>>

\* under s.mu: take the ID and s.nextID++; look every item's product up and
\* return an error at the first unknown one; else store the order and return
\* it; the deferred s.mu.Unlock()
CreateOrderBody(c) ==
    /\ co[c].pc = "body"
    /\ smu = c
    /\ LET orderID == Sprintf04d(nextID)
           items == co[c].items
           found == \A k \in DOMAIN items : items[k].ProductID \in products
       IN /\ nextID' = nextID + 1
          /\ IF found
             THEN /\ orders' = [o \in DOMAIN orders \cup {orderID} |->
                                   IF o = orderID THEN items ELSE orders[o]]
                  /\ co' = [co EXCEPT ![c].pc = "done", ![c].ok = TRUE, ![c].id = orderID]
                  /\ created' = created + 1
             ELSE /\ co' = [co EXCEPT ![c].pc = "done"]
                  /\ UNCHANGED <<orders, created>>
    /\ smu' = "free"
    /\ UNCHANGED <<fileVars, rocksVars, products, calls>>

\* the caller has its order or its error
CreateOrderReturn(c) ==
    /\ co[c].pc = "done"
    /\ co' = [co EXCEPT ![c] = COIdle]
    /\ UNCHANGED <<fileVars, rocksVars, products, orders, nextID, smu, calls, created>>

InitStore ==
    /\ nfiles = NumFiles
    /\ FileInit
    /\ RocksInit
    /\ StoreInit

NextStore ==
    \/ AddProduct
    \/ \E c \in Callers, items \in ItemLists : CreateOrderBegin(c, items)
    \/ \E c \in Callers : CreateOrderLock(c)
    \/ \E c \in Callers : CreateOrderBody(c)
    \/ \E c \in Callers : CreateOrderReturn(c)

SpecStore == InitStore /\ [][NextStore]_vars

\* C18: a CreateOrder call that fails (no items, or an item with an unknown
\* product ID) leaves the store as it was: no order stored, no ID consumed;
\* the IDs of the orders created are 0001, 0002, 0003, ... without gaps or
\* duplicates, however concurrent calls interleave.
C18_FailedCreateLeavesStore ==
    /\ nextID = created + 1
    /\ DOMAIN orders = {Sprintf04d(k) : k \in 1..created}
    /\ \A c \in Callers : (co[c].pc = "done" /\ co[c].ok) => co[c].id \in DOMAIN orders

====
